---- MODULE Spec2Model ----
(***************************************************************************)
(* Model of pkg/controller/controller.go: the reconciliation loop of       *)
(* Controller.Run, the client bootstrap getKubeClient, the launcher        *)
(* startCloudControllerManager and the deferred cleanup.                   *)
(*                                                                         *)
(* Run is one sequential control flow; pc is its position.  The only       *)
(* concurrent actor is the owner of the context handed to Run, who may     *)
(* cancel it between any two steps (action Cancel).  Calls into external   *)
(* packages (kind.List, kind.KubeConfig, probeHTTP's GET, the readiness    *)
(* poll, the controller constructors) return a nondeterministic outcome.   *)
(*                                                                         *)
(* Spec is Run with each call of getKubeClient taken as one step that      *)
(* yields one of the results the function can return.  GkcSpec is one call *)
(* of getKubeClient taken statement by statement.                          *)
(***************************************************************************)
EXTENDS Integers, Sequences, FiniteSets, TLC

\* Number of cluster identifiers the discovery provider can report.
NumClusters == 2
\* Cap on the number of child contexts (context.WithCancel, line 216) created
\* over one execution of Run.
MaxInstances == 2

\* Number of containers carrying the label that container.ListByLabel can
\* return.
NumContainers == 3

\* for i := 0; i < 5; i++   (line 137)
MaxProbes == 5

ClusterIds == 1..NumClusters

VARIABLES
    pc,          \* position of Run's control flow
    ctxDone,     \* the ctx passed to Run has been canceled
    clusters,    \* Run's local slice returned by c.kind.List() (line 60)
    err,         \* Run's local err of c.kind.List() is non-nil (line 60)
    idx,         \* position of the range loop over clusters (line 66)
    c_clusters,  \* c.clusters: map cluster -> handle (index into handles)
    handles,     \* every child lifetime created at line 216, in creation order
    v,           \* getKubeClient: position in []bool{false, true} (line 121)
    i,           \* getKubeClient: probe loop counter (line 137)
    probes,      \* getKubeClient: probeHTTP calls issued per variant in this call
    waits,       \* getKubeClient: seconds slept after each failed probe, per variant
    outcome,     \* getKubeClient: how each variant's loop body ended in this call
    kubeClient,  \* getKubeClient's returned client: "nil", "external", "internal"
    gkcErr,      \* getKubeClient's returned error: "nil", "canceled", "noclient"
    resp,        \* the HTTP exchange last made by probeHTTP or by the readiness poll
    cleanupRuns, \* number of times the deferred cleanup() has run
    containers,  \* cleanup: the ids returned by container.ListByLabel (line 244)
    cleanupErr,  \* cleanup: container.ListByLabel returned an error (line 245)
    deletes,     \* cleanup: the container.Delete calls made so far (line 250)
    lastListed,  \* history: the cluster set of the latest listing with err == nil
    launchOK     \* history: clusters whose latest bootstrap+launch attempt succeeded

vars == <<pc, ctxDone, clusters, err, idx, c_clusters, handles, v, i, probes,
          waits, outcome, kubeClient, gkcErr, resp, cleanupRuns, containers,
          cleanupErr, deletes, lastListed, launchOK>>

gkcVars == <<v, i, probes, waits, outcome, kubeClient, gkcErr>>
cleanupVars == <<cleanupRuns, containers, cleanupErr, deletes>>
histVars == <<lastListed, launchOK>>

----------------------------------------------------------------------------
\* Helpers

\* The strictly increasing sequence of the elements of S: kind's List returns
\* the sorted, duplicate-free names of the clusters.
RECURSIVE SortedSeq(_)
SortedSeq(S) ==
    IF S = {} THEN <<>>
    ELSE LET m == CHOOSE x \in S : \A y \in S : x <= y
         IN <<m>> \o SortedSeq(S \ {m})

\* Results c.kind.List() can return with a nil error.
Listings == {SortedSeq(S) : S \in SUBSET ClusterIds}

\* sets.New(clusters...)   (line 97)
clusterSet(cl) == {cl[n] : n \in DOMAIN cl}

\* Mutation of Variants: the internal endpoint is tried first.
Variants_InternalFirst == <<TRUE, FALSE>>

\* []bool{false, true}: the values of `internal`, in the order tried (line 121)
Variants == <<FALSE, TRUE>>

internal == Variants[v]

ClientOf(b) == IF b THEN "internal" ELSE "external"

\* Mutation of AlreadyExists: the lookup at line 74 is dropped.
AlreadyExists_Never(cluster) == FALSE

\* _, ok := c.clusters[cluster]   (line 74)
AlreadyExists(cluster) == cluster \in DOMAIN c_clusters

\* Mutation of Expired: the removal phase ignores the listing and removes
\* every key.
Expired_All(m, cs) == DOMAIN m

\* Mutation of Expired: the removal loop compares against the keys of the
\* map itself instead of the listed set, so nothing ever expires.
Expired_Never(m, cs) == {k \in DOMAIN m : k \notin DOMAIN m}

\* the keys the removal loop cancels and deletes (lines 98-100)
Expired(m, cs) == {k \in DOMAIN m : k \notin cs}

\* c.clusters[cluster] = ccm   (line 94)
MapPut(m, k, h) == [x \in DOMAIN m \cup {k} |-> IF x = k THEN h ELSE m[x]]

\* Mutation of MapDelete: the delete at line 103 is missing.
MapDelete_Missing(m, ks) == m

\* delete(c.clusters, cluster) for every cluster of ks   (line 103)
MapDelete(m, ks) == [x \in DOMAIN m \ ks |-> m[x]]

\* Mutation of CancelAll: the cancel functions are not called.
CancelAll_Nothing(hd, hs) == hd

\* ccm.cancelFn() / cancel() on the handles hs   (lines 102, 229)
CancelAll(hd, hs) ==
    [n \in DOMAIN hd |->
        IF n \in hs THEN [hd[n] EXCEPT !.cancelCalls = @ + 1] ELSE hd[n]]

\* A child lifetime derived at line 216 is over once its cancel function has
\* been called or its parent context is done.
LifetimeCanceled(h) == h.cancelCalls > 0 \/ ctxDone

\* Mutation of BoundTo: the informers are started on the stop channel of the
\* context passed to startCloudControllerManager.
BoundTo_InformersOnParent(task) ==
    IF task = "informers" THEN "parent" ELSE "child"

\* The context a background task of an instance is started on: the `ctx` of
\* lines 217, 232 and 234 is the child context that shadows the parameter
\* from line 216 on.
BoundTo(task) == "child"

\* The context `which` of handle h is done.
ContextDone(h, which) ==
    IF which = "child" THEN LifetimeCanceled(h) ELSE ctxDone

\* The background tasks of handle h that are still running: those started
\* whose context is not done.
RunningTasks(h) == {t \in h.started : ~ContextDone(h, BoundTo(t))}

NoGkc == [b \in BOOLEAN |-> 0]
NoWaits == [b \in BOOLEAN |-> <<>>]
NoOutcome == [b \in BOOLEAN |-> "untried"]

\* An HTTP exchange: err is the transport error of the request ("nil" when
\* a response came back), status the status code of the response (0 without
\* a response).
TransportErrors == {"refused", "timeout"}
StatusCodes == {200, 503}
Responses ==
    {[err |-> e, status |-> 0] : e \in TransportErrors}
        \cup {[err |-> "nil", status |-> c] : c \in StatusCodes}

\* No exchange made yet.
NoResp == [err |-> "none", status |-> 0]

\* Mutation of probeHTTP: only a 200 answer counts as reachable.
probeHTTP_ChecksStatus(r) == r.err = "nil" /\ r.status = 200

\* probeHTTP (lines 164-177) on the exchange r of client.Get(address): false
\* when Get returned an error, true otherwise, the status code unread.
probeHTTP(r) == IF r.err # "nil" THEN FALSE ELSE TRUE

\* http.StatusOK   (line 187)
StatusOK == 200

\* Mutation of HealthReady: any answer of the apiserver counts as ready.
HealthReady_AnyStatus(status) == status # 0

\* The condition of the readiness poll on the status code it read
\* (lines 185-191).
HealthReady(status) == status = StatusOK

----------------------------------------------------------------------------
\* State after New() (lines 41-49) and before the first statement of Run.
Init ==
    /\ pc = "loop"
    /\ ctxDone = FALSE
    /\ clusters = <<>>
    /\ err = FALSE
    /\ idx = 1
    /\ c_clusters = <<>>
    /\ handles = <<>>
    /\ v = 1
    /\ i = 0
    /\ probes = NoGkc
    /\ waits = NoWaits
    /\ outcome = NoOutcome
    /\ kubeClient = "nil"
    /\ gkcErr = "nil"
    /\ resp = NoResp
    /\ cleanupRuns = 0
    /\ containers = <<>>
    /\ cleanupErr = FALSE
    /\ deletes = <<>>
    /\ lastListed = {}
    /\ launchOK = {}

\* The owner of ctx cancels it (the process-level cancellation signal).
Cancel ==
    /\ ~ctxDone
    /\ ctxDone' = TRUE
    /\ UNCHANGED <<resp, pc, clusters, err, idx, c_clusters, handles, gkcVars,
                   cleanupVars, histVars>>

\* Loop entry, lines 54-58: the select on ctx.Done() returns from Run.
LoopExit ==
    /\ pc = "loop"
    /\ ctxDone
    /\ pc' = "cleanup"
    /\ UNCHANGED <<resp, ctxDone, clusters, err, idx, c_clusters, handles, gkcVars,
                   cleanupVars, histVars>>

\* Lines 60-63, listing succeeded.
ListOk ==
    /\ pc = "loop"
    /\ ~ctxDone
    /\ \E l \in Listings :
        /\ clusters' = l
        /\ lastListed' = clusterSet(l)
    /\ err' = FALSE
    /\ idx' = 1
    /\ pc' = "iter"
    /\ UNCHANGED <<resp, ctxDone, c_clusters, handles, gkcVars, cleanupVars, launchOK>>

\* Mutation of ListErr: a listing error makes Run return.
ListErr_Returns ==
    /\ pc = "loop"
    /\ ~ctxDone
    /\ clusters' = <<>>
    /\ err' = TRUE
    /\ idx' = 1
    /\ pc' = "cleanup"
    /\ UNCHANGED <<resp, ctxDone, c_clusters, handles, gkcVars, cleanupVars, histVars>>

\* Lines 60-63, listing failed: the error is logged and Run goes on with the
\* nil slice kind returns next to an error.
ListErr ==
    /\ pc = "loop"
    /\ ~ctxDone
    /\ clusters' = <<>>
    /\ err' = TRUE
    /\ idx' = 1
    /\ pc' = "iter"
    /\ UNCHANGED <<resp, ctxDone, c_clusters, handles, gkcVars, cleanupVars, histVars>>

\* Line 66: the range loop is over.
IterEnd ==
    /\ pc = "iter"
    /\ idx > Len(clusters)
    /\ pc' = "remove"
    /\ UNCHANGED <<resp, ctxDone, clusters, err, idx, c_clusters, handles, gkcVars,
                   cleanupVars, histVars>>

\* Mutation of IterExit: cleanup is not deferred, the return at line 69 skips it.
IterExit_NoCleanup ==
    /\ pc = "iter"
    /\ idx <= Len(clusters)
    /\ ctxDone
    /\ pc' = "done"
    /\ UNCHANGED <<resp, ctxDone, clusters, err, idx, c_clusters, handles, gkcVars,
                   cleanupVars, histVars>>

\* Lines 67-71: the select inside the per-cluster iteration returns from Run.
IterExit ==
    /\ pc = "iter"
    /\ idx <= Len(clusters)
    /\ ctxDone
    /\ pc' = "cleanup"
    /\ UNCHANGED <<resp, ctxDone, clusters, err, idx, c_clusters, handles, gkcVars,
                   cleanupVars, histVars>>

\* Lines 74-78: the cluster already has an instance.
IterSkip ==
    /\ pc = "iter"
    /\ idx <= Len(clusters)
    /\ ~ctxDone
    /\ AlreadyExists(clusters[idx])
    /\ idx' = idx + 1
    /\ UNCHANGED <<resp, pc, ctxDone, clusters, err, c_clusters, handles, gkcVars,
                   cleanupVars, histVars>>

\* Lines 80-84: getKubeClient is called for a cluster without an instance
\* and returns an error (ctx.Err() or "can not find a working kubernetes
\* clientset"); the cluster is skipped.
BootstrapFailed ==
    /\ pc = "iter"
    /\ idx <= Len(clusters)
    /\ ~ctxDone
    /\ ~AlreadyExists(clusters[idx])
    /\ idx' = idx + 1
    /\ launchOK' = launchOK \ {clusters[idx]}
    /\ UNCHANGED <<resp, pc, ctxDone, clusters, err, c_clusters, handles, gkcVars,
                   cleanupVars, lastListed>>

\* Lines 80-88: getKubeClient is called for a cluster without an instance
\* and returns the client of one of the variants; startCloudControllerManager
\* is called with it.
BootstrapOk ==
    /\ pc = "iter"
    /\ idx <= Len(clusters)
    /\ ~ctxDone
    /\ ~AlreadyExists(clusters[idx])
    /\ \E b \in BOOLEAN : kubeClient' = ClientOf(b)
    /\ pc' = "poll"
    /\ UNCHANGED <<resp, ctxDone, clusters, err, idx, c_clusters, handles, v, i,
                   probes, waits, outcome, gkcErr, cleanupVars, histVars>>

----------------------------------------------------------------------------
\* getKubeClient (lines 113-162)

\* `continue` of the loop over the variants (lines 125, 131, 151, 157), and
\* the error returned once the loop is over (line 161).
NextVariant(how) ==
    /\ outcome' = [outcome EXCEPT ![internal] = how]
    /\ i' = 0
    /\ kubeClient' = kubeClient
    /\ IF v < Len(Variants)
       THEN /\ v' = v + 1
            /\ gkcErr' = gkcErr
            /\ pc' = "kubeconfig"
       ELSE /\ v' = v
            /\ gkcErr' = "noclient"
            /\ pc' = "gkc_ret"

\* Lines 122-126: c.kind.KubeConfig fails.
KubeConfigFail ==
    /\ pc = "kubeconfig"
    /\ NextVariant("kubeconfig")
    /\ UNCHANGED <<resp, ctxDone, clusters, err, idx, c_clusters, handles, probes,
                   waits, cleanupVars, histVars>>

\* Lines 128-132: clientcmd.RESTConfigFromKubeConfig fails.
RestConfigFail ==
    /\ pc = "kubeconfig"
    /\ NextVariant("restconfig")
    /\ UNCHANGED <<resp, ctxDone, clusters, err, idx, c_clusters, handles, probes,
                   waits, cleanupVars, histVars>>

\* Lines 122-137: both succeed, the probe loop starts with i = 0.
ConfigOk ==
    /\ pc = "kubeconfig"
    /\ i' = 0
    /\ pc' = "probe"
    /\ UNCHANGED <<resp, ctxDone, clusters, err, idx, c_clusters, handles, v, probes,
                   waits, outcome, kubeClient, gkcErr, cleanupVars, histVars>>

\* Lines 138-142: ctx is done, getKubeClient returns nil, ctx.Err().
ProbeCanceled ==
    /\ pc = "probe"
    /\ ctxDone
    /\ gkcErr' = "canceled"
    /\ pc' = "gkc_ret"
    /\ UNCHANGED <<resp, ctxDone, clusters, err, idx, c_clusters, handles, v, i,
                   probes, waits, outcome, kubeClient, cleanupVars, histVars>>

\* Lines 143-146: probeHTTP returns true; ok = true; break.
ProbeOk ==
    /\ pc = "probe"
    /\ ~ctxDone
    /\ \E r \in Responses : probeHTTP(r) /\ resp' = r
    /\ probes' = [probes EXCEPT ![internal] = @ + 1]
    /\ pc' = "newclient"
    /\ UNCHANGED <<ctxDone, clusters, err, idx, c_clusters, handles, v, i,
                   waits, outcome, kubeClient, gkcErr, cleanupVars, histVars>>

\* Line 143: probeHTTP returns false.
ProbeFail ==
    /\ pc = "probe"
    /\ ~ctxDone
    /\ \E r \in Responses : ~probeHTTP(r) /\ resp' = r
    /\ probes' = [probes EXCEPT ![internal] = @ + 1]
    /\ pc' = "backoff"
    /\ UNCHANGED <<ctxDone, clusters, err, idx, c_clusters, handles, v, i,
                   waits, outcome, kubeClient, gkcErr, cleanupVars, histVars>>

\* Mutation of BackoffSeconds: a constant one-second backoff.
BackoffSeconds_Constant(n) == 1

\* time.Sleep(time.Second * time.Duration(i))   (line 147): seconds slept
BackoffSeconds(n) == n

\* Lines 147-152: sleep, i++, and either the next attempt or, with the five
\* attempts used up and ok still false, the next variant.
Backoff ==
    /\ pc = "backoff"
    /\ waits' = [waits EXCEPT ![internal] = Append(@, BackoffSeconds(i))]
    /\ IF i + 1 < MaxProbes
       THEN /\ i' = i + 1
            /\ pc' = "probe"
            /\ UNCHANGED <<v, outcome, kubeClient, gkcErr>>
       ELSE NextVariant("unreachable")
    /\ UNCHANGED <<resp, ctxDone, clusters, err, idx, c_clusters, handles, probes,
                   cleanupVars, histVars>>

\* Lines 154-158: kubernetes.NewForConfig fails.
NewForConfigFail ==
    /\ pc = "newclient"
    /\ NextVariant("newforconfig")
    /\ UNCHANGED <<resp, ctxDone, clusters, err, idx, c_clusters, handles, probes,
                   waits, cleanupVars, histVars>>

\* Lines 154-159: the client of this variant is returned.
NewForConfigOk ==
    /\ pc = "newclient"
    /\ outcome' = [outcome EXCEPT ![internal] = "ok"]
    /\ kubeClient' = ClientOf(internal)
    /\ pc' = "gkc_ret"
    /\ UNCHANGED <<resp, ctxDone, clusters, err, idx, c_clusters, handles, v, i,
                   probes, waits, gkcErr, cleanupVars, histVars>>

----------------------------------------------------------------------------
\* Run, lines 80-95, and startCloudControllerManager (lines 181-241)

\* Mutation of Continue: a failure for one cluster ends the add loop of the
\* cycle (break instead of continue).
Continue_Breaks ==
    /\ idx' = idx
    /\ pc' = "remove"
    /\ kubeClient' = "nil"
    /\ launchOK' = launchOK \ {clusters[idx]}
    /\ resp' = NoResp
    /\ UNCHANGED <<ctxDone, clusters, err, c_clusters, v, i, probes, waits,
                   outcome, gkcErr, cleanupVars, lastListed>>

\* `continue` of the range loop after a failure for clusters[idx]
\* (lines 83, 91): nothing is stored for the cluster.
Continue ==
    /\ idx' = idx + 1
    /\ pc' = "iter"
    /\ kubeClient' = "nil"
    /\ launchOK' = launchOK \ {clusters[idx]}
    /\ resp' = NoResp
    /\ UNCHANGED <<ctxDone, clusters, err, c_clusters, v, i, probes, waits,
                   outcome, gkcErr, cleanupVars, lastListed>>

\* Lines 184-192: one round of the readiness poll; the condition reads a
\* status other than 200 (0 when the request failed) and the poll goes on.
\* Every request of the poll carries ctx, so none is made once ctx is done.
PollNotReady ==
    /\ pc = "poll"
    /\ ~ctxDone
    /\ \E r \in Responses : ~HealthReady(r.status) /\ resp' = r
    /\ UNCHANGED <<pc, ctxDone, clusters, err, idx, c_clusters, handles,
                   gkcVars, cleanupVars, histVars>>

\* Lines 184-192: the condition reads 200 on /healthz and the poll returns nil.
PollReady ==
    /\ pc = "poll"
    /\ ~ctxDone
    /\ \E r \in Responses : HealthReady(r.status) /\ resp' = r
    /\ pc' = "svc"
    /\ UNCHANGED <<ctxDone, clusters, err, idx, c_clusters, handles, gkcVars,
                   cleanupVars, histVars>>

\* Lines 184-196 and 89-92: the 30 seconds of the poll are over with ctx
\* not done; startCloudControllerManager returns the error.
PollTimeout ==
    /\ pc = "poll"
    /\ ~ctxDone
    /\ Continue
    /\ UNCHANGED handles

\* Lines 184-196 and 89-92: ctx is done and the poll returns at once;
\* startCloudControllerManager returns the error.
PollCanceled ==
    /\ pc = "poll"
    /\ ctxDone
    /\ Continue
    /\ UNCHANGED handles

\* Lines 202-214 and 89-92: servicecontroller.New fails; nothing was started.
ServiceControllerFail ==
    /\ pc = "svc"
    /\ Continue
    /\ UNCHANGED handles

\* Lines 202-217: the service controller is constructed, the child context
\* is derived and serviceController.Run is started on it.
ServiceControllerOk ==
    /\ pc = "svc"
    /\ Len(handles) < MaxInstances
    /\ handles' = Append(handles, [cluster |-> clusters[idx], cancelCalls |-> 0,
                                   started |-> {"service"}, returned |-> FALSE])
    /\ pc' = "node"
    /\ UNCHANGED <<resp, ctxDone, clusters, err, idx, c_clusters, gkcVars,
                   cleanupVars, histVars>>

\* Mutation of TornDown: the cancel() at line 229 is missing.
TornDown_Nothing(h) == {}

\* The handles canceled when NewCloudNodeController fails (line 229).
TornDown(h) == {h}

\* Lines 220-231 and 89-92: nodecontroller.NewCloudNodeController fails.
NodeControllerFail ==
    /\ pc = "node"
    /\ handles' = CancelAll(handles, TornDown(Len(handles)))
    /\ Continue

\* Lines 232-240 and 93-94: the node controller and the informers are
\* started, the handle is returned and stored in c.clusters.
NodeControllerOk ==
    /\ pc = "node"
    /\ handles' = [handles EXCEPT ![Len(handles)] =
                      [@ EXCEPT !.started = @ \cup {"node", "informers"},
                                !.returned = TRUE]]
    /\ c_clusters' = MapPut(c_clusters, clusters[idx], Len(handles))
    /\ launchOK' = launchOK \cup {clusters[idx]}
    /\ idx' = idx + 1
    /\ pc' = "iter"
    /\ kubeClient' = "nil"
    /\ resp' = NoResp
    /\ UNCHANGED <<ctxDone, clusters, err, v, i, probes, waits, outcome,
                   gkcErr, cleanupVars, lastListed>>

\* Lines 96-105: every key not in the listed set is canceled and deleted.
Remove ==
    /\ pc = "remove"
    /\ LET ex == Expired(c_clusters, clusterSet(clusters))
       IN /\ handles' = CancelAll(handles, {c_clusters[k] : k \in ex})
          /\ c_clusters' = MapDelete(c_clusters, ex)
    /\ pc' = "sleep"
    /\ UNCHANGED <<resp, ctxDone, clusters, err, idx, gkcVars, cleanupVars, histVars>>

\* time.Sleep(30 * time.Second)   (line 106)
Sleep ==
    /\ pc = "sleep"
    /\ pc' = "loop"
    /\ UNCHANGED <<resp, ctxDone, clusters, err, idx, c_clusters, handles, gkcVars,
                   cleanupVars, histVars>>

\* defer cleanup()   (lines 52, 243-254): runs when Run returns.
Cleanup ==
    /\ pc = "cleanup"
    /\ cleanupRuns' = cleanupRuns + 1
    /\ pc' = "done"
    /\ UNCHANGED <<ctxDone, clusters, err, idx, c_clusters, handles, gkcVars,
                   resp, containers, cleanupErr, deletes, histVars>>

\* The steps of Run's control flow.
RunStep ==
    \/ LoopExit \/ ListOk \/ ListErr
    \/ IterEnd \/ IterExit \/ IterSkip
    \/ BootstrapFailed \/ BootstrapOk
    \/ PollNotReady \/ PollReady \/ PollTimeout \/ PollCanceled
    \/ ServiceControllerFail \/ ServiceControllerOk
    \/ NodeControllerFail \/ NodeControllerOk
    \/ Remove \/ Sleep \/ Cleanup

Next == Cancel \/ RunStep

Spec == Init /\ [][Next]_vars

\* Run's goroutine keeps being scheduled and every call it makes returns.
FairSpec == Spec /\ WF_vars(RunStep)

\* One call getKubeClient(ctx, cluster), entered at line 113 with ctx not yet
\* done, for any cluster of any listing.
GkcInit ==
    /\ pc = "kubeconfig"
    /\ ctxDone = FALSE
    /\ clusters \in Listings \ {<<>>}
    /\ err = FALSE
    /\ idx \in DOMAIN clusters
    /\ c_clusters = <<>>
    /\ handles = <<>>
    /\ v = 1
    /\ i = 0
    /\ probes = NoGkc
    /\ waits = NoWaits
    /\ outcome = NoOutcome
    /\ kubeClient = "nil"
    /\ gkcErr = "nil"
    /\ resp = NoResp
    /\ cleanupRuns = 0
    /\ containers = <<>>
    /\ cleanupErr = FALSE
    /\ deletes = <<>>
    /\ lastListed = clusterSet(clusters)
    /\ launchOK = {}

GkcStep ==
    \/ KubeConfigFail \/ RestConfigFail \/ ConfigOk
    \/ ProbeCanceled \/ ProbeOk \/ ProbeFail \/ Backoff
    \/ NewForConfigFail \/ NewForConfigOk

GkcNext == Cancel \/ GkcStep

GkcSpec == GkcInit /\ [][GkcNext]_vars

----------------------------------------------------------------------------
\* cleanup (lines 243-254), statement by statement

\* The slices container.ListByLabel can return: the labelled containers in
\* any order.
ContainerListings ==
    {l \in UNION {[1..n -> 1..NumContainers] : n \in 0..NumContainers} :
        \A a, b \in DOMAIN l : a # b => l[a] # l[b]}

\* The container the range loop at line 249 is at.
NextContainer == Len(deletes) + 1

\* Lines 244-248: ListByLabel fails; the error is logged and cleanup returns.
CleanupListErr ==
    /\ pc = "cleanup"
    /\ containers' = <<>>
    /\ cleanupErr' = TRUE
    /\ cleanupRuns' = cleanupRuns + 1
    /\ pc' = "done"
    /\ UNCHANGED <<resp, ctxDone, clusters, err, idx, c_clusters, handles,
                   gkcVars, deletes, histVars>>

\* Line 244: ListByLabel returns the labelled containers.
CleanupListOk ==
    /\ pc = "cleanup"
    /\ \E l \in ContainerListings : containers' = l
    /\ pc' = "delete"
    /\ UNCHANGED <<resp, ctxDone, clusters, err, idx, c_clusters, handles,
                   gkcVars, cleanupRuns, cleanupErr, deletes, histVars>>

\* Line 250: container.Delete(id) succeeds.
DeleteOk ==
    /\ pc = "delete"
    /\ NextContainer <= Len(containers)
    /\ deletes' = Append(deletes, [id |-> containers[NextContainer],
                                   failed |-> FALSE])
    /\ UNCHANGED <<resp, pc, ctxDone, clusters, err, idx, c_clusters, handles,
                   gkcVars, cleanupRuns, containers, cleanupErr, histVars>>

\* Mutation of DeleteFail: a failed Delete makes cleanup return.
DeleteFail_Returns ==
    /\ pc = "delete"
    /\ NextContainer <= Len(containers)
    /\ deletes' = Append(deletes, [id |-> containers[NextContainer],
                                   failed |-> TRUE])
    /\ cleanupRuns' = cleanupRuns + 1
    /\ pc' = "done"
    /\ UNCHANGED <<resp, ctxDone, clusters, err, idx, c_clusters, handles,
                   gkcVars, containers, cleanupErr, histVars>>

\* Lines 250-252: container.Delete(id) fails; the error is logged and the
\* loop goes on.
DeleteFail ==
    /\ pc = "delete"
    /\ NextContainer <= Len(containers)
    /\ deletes' = Append(deletes, [id |-> containers[NextContainer],
                                   failed |-> TRUE])
    /\ UNCHANGED <<resp, pc, ctxDone, clusters, err, idx, c_clusters, handles,
                   gkcVars, cleanupRuns, containers, cleanupErr, histVars>>

\* Lines 249, 254: the range loop is over and cleanup returns.
DeleteDone ==
    /\ pc = "delete"
    /\ NextContainer > Len(containers)
    /\ cleanupRuns' = cleanupRuns + 1
    /\ pc' = "done"
    /\ UNCHANGED <<resp, ctxDone, clusters, err, idx, c_clusters, handles,
                   gkcVars, containers, cleanupErr, deletes, histVars>>

\* The deferred call of cleanup (line 52) when Run returns: ctx is done and
\* nothing has been listed or deleted yet.
CleanupInit ==
    /\ pc = "cleanup"
    /\ ctxDone = TRUE
    /\ clusters = <<>>
    /\ err = FALSE
    /\ idx = 1
    /\ c_clusters = <<>>
    /\ handles = <<>>
    /\ v = 1
    /\ i = 0
    /\ probes = NoGkc
    /\ waits = NoWaits
    /\ outcome = NoOutcome
    /\ kubeClient = "nil"
    /\ gkcErr = "nil"
    /\ resp = NoResp
    /\ cleanupRuns = 0
    /\ containers = <<>>
    /\ cleanupErr = FALSE
    /\ deletes = <<>>
    /\ lastListed = {}
    /\ launchOK = {}

CleanupNext ==
    \/ CleanupListErr \/ CleanupListOk
    \/ DeleteOk \/ DeleteFail \/ DeleteDone

CleanupSpec == CleanupInit /\ [][CleanupNext]_vars

TypeOK ==
    /\ pc \in {"loop", "iter", "kubeconfig", "probe", "backoff", "newclient",
               "gkc_ret", "poll", "svc", "node", "remove", "sleep", "cleanup",
               "delete", "done"}
    /\ ctxDone \in BOOLEAN
    /\ clusters \in Listings
    /\ err \in BOOLEAN
    /\ idx \in 1..(NumClusters + 1)
    /\ DOMAIN c_clusters \subseteq ClusterIds
    /\ \A k \in DOMAIN c_clusters : c_clusters[k] \in DOMAIN handles
    /\ Len(handles) <= MaxInstances
    /\ v \in DOMAIN Variants
    /\ i \in 0..(MaxProbes - 1)
    /\ kubeClient \in {"nil", "external", "internal"}
    /\ gkcErr \in {"nil", "canceled", "noclient"}
    /\ resp \in Responses \cup {NoResp}
    /\ cleanupRuns \in 0..1
    /\ containers \in ContainerListings
    /\ cleanupErr \in BOOLEAN
    /\ Len(deletes) <= Len(containers)
    /\ lastListed \subseteq ClusterIds
    /\ launchOK \subseteq ClusterIds

----------------------------------------------------------------------------
\* Properties

\* The handles stored in c.clusters.
Held == {c_clusters[k] : k \in DOMAIN c_clusters}

\* getKubeClient: a probe of variant b has succeeded in this call.
Reached(b) == outcome[b] \in {"ok", "newforconfig"}

\* getKubeClient: the loop body of variant b ended in a `continue`.
GaveUp(b) == outcome[b] \in {"kubeconfig", "restconfig", "unreachable", "newforconfig"}

\* C1: a cycle of Run whose listing returned an error leaves c.clusters as it
\* was and invokes no cancelFn: while err is set, no step changes the map or
\* any handle.
C1_ListErrLeavesFleet ==
    [][(err /\ err') => UNCHANGED <<c_clusters, handles>>]_vars

\* C2: when a cycle is over, the keys of c.clusters are the clusters of the
\* latest listing that succeeded for which bootstrap and launch succeeded.
C2_FleetIsListedAndLaunched ==
    pc = "sleep" => DOMAIN c_clusters = lastListed \cap launchOK

\* C3: Run is inside startCloudControllerManager only for a cluster that is
\* not a key of c.clusters, a handle is stored only under its own cluster, and
\* no cluster ever has two handles whose lifetime is not canceled.
C3_NoDuplicateInstance ==
    /\ pc \in {"poll", "svc", "node"} => clusters[idx] \notin DOMAIN c_clusters
    /\ \A k \in DOMAIN c_clusters : handles[c_clusters[k]].cluster = k
    /\ \A a, b \in DOMAIN handles :
          (/\ handles[a].cluster = handles[b].cluster
           /\ ~LifetimeCanceled(handles[a])
           /\ ~LifetimeCanceled(handles[b])) => a = b

\* C3 witness: cluster 2 was launched in an earlier cycle than cluster 1 and
\* was listed again, already launched, in the cycle that launched cluster 1.
C3_Witness ==
    /\ ~ctxDone
    /\ {1, 2} \subseteq DOMAIN c_clusters
    /\ c_clusters[2] < c_clusters[1]

\* C4 as stated: once the cycle of a listing is over, also because Run
\* returned, no key is missing from the listing and every handle returned for
\* a cluster missing from it has had its cancelFn invoked exactly once.
C4_Original ==
    (pc \in {"sleep", "done"} /\ ~err) =>
        \A n \in DOMAIN handles :
            (handles[n].returned /\ handles[n].cluster \notin clusterSet(clusters))
                => (handles[n].cancelCalls = 1 /\ n \notin Held)

\* C4 amended: once the removal phase of a cycle has run, every key is in the
\* cycle's listed set; a handle that was stored in c.clusters is out of it
\* exactly when its cancelFn has been invoked, and no cancelFn is ever invoked
\* twice.
C4_RemovedAndCanceledOnce ==
    /\ pc = "sleep" => DOMAIN c_clusters \subseteq clusterSet(clusters)
    /\ \A n \in DOMAIN handles :
          /\ handles[n].cancelCalls <= 1
          /\ handles[n].returned => (handles[n].cancelCalls = 1 <=> n \notin Held)

\* C4 witness: a successful listing omitted the cluster of a stored handle and
\* the removal phase has run.
C4_Witness ==
    /\ pc = "sleep"
    /\ ~err
    /\ \E n \in DOMAIN handles :
          /\ handles[n].returned
          /\ handles[n].cluster \notin clusterSet(clusters)
          /\ handles[n].cancelCalls = 1

\* The clusters that have an instance running: a handle was returned for it
\* and its lifetime is not canceled.
RunningClusters ==
    {handles[n].cluster : n \in {x \in DOMAIN handles :
        handles[x].returned /\ ~LifetimeCanceled(handles[x])}}

\* C5 as stated: in every state the keys of c.clusters are the clusters that
\* have an instance running.
C5_Original == DOMAIN c_clusters = RunningClusters

\* C5 amended: as long as the context passed to Run is not canceled, the keys
\* of c.clusters are the clusters that have an instance running.
C5_KeysAreRunning == ~ctxDone => DOMAIN c_clusters = RunningClusters

\* C5 witness: one instance is running and another was canceled and removed.
C5_Witness ==
    /\ ~ctxDone
    /\ DOMAIN c_clusters # {}
    /\ \E n \in DOMAIN handles : handles[n].returned /\ handles[n].cancelCalls = 1

C7_BoundedProbes ==
    /\ probes[FALSE] + probes[TRUE] <= 2 * MaxProbes
    /\ \A b \in BOOLEAN :
          /\ probes[b] <= MaxProbes
          /\ Len(waits[b]) <= probes[b]
          /\ Reached(b) => probes[b] = Len(waits[b]) + 1
          /\ \A n \in DOMAIN waits[b] : waits[b][n] = n - 1
          /\ \A n, m \in DOMAIN waits[b] : n < m => waits[b][n] < waits[b][m]

\* C7 witness: both variants used up their five probes.
C7_Witness ==
    /\ pc = "gkc_ret"
    /\ probes[FALSE] = MaxProbes
    /\ waits[TRUE] = <<0, 1, 2, 3, 4>>

\* C8: Run leaves the loop only with ctx done; as long as ctx is not done
\* Run has a next step, whatever failed before.
C8_ExitsOnlyOnCancel ==
    /\ pc \in {"cleanup", "done"} => ctxDone
    /\ ~ctxDone => ENABLED RunStep

\* C8 witness: after a construction failure and a failed listing the loop is
\* on its way to the next cycle.
C8_Witness ==
    /\ ~ctxDone
    /\ pc = "sleep"
    /\ err
    /\ \E n \in DOMAIN handles : ~handles[n].returned

\* C9: once ctx is done Run eventually returns; cleanup has run exactly once
\* when Run has returned and not at all before.
C9_CleanupOnceAfterLoop ==
    /\ ctxDone ~> (pc = "done")
    /\ [](cleanupRuns = IF pc = "done" THEN 1 ELSE 0)

\* C9 witness: Run returned from inside the per-cluster iteration and
\* cleanup has run.
C9_Witness ==
    /\ pc = "done"
    /\ idx <= Len(clusters)
    /\ cleanupRuns = 1

\* C10: a handle whose construction failed is never stored in c.clusters and
\* has no task running once startCloudControllerManager has returned; while
\* it is the latest handle its cluster is not a key.
C10_FailedLaunchLeavesNothing ==
    \A n \in DOMAIN handles :
        (~handles[n].returned /\ ~(pc = "node" /\ n = Len(handles))) =>
            /\ n \notin Held
            /\ RunningTasks(handles[n]) = {}
            /\ n = Len(handles) => handles[n].cluster \notin DOMAIN c_clusters

\* C10 witness: NewCloudNodeController failed after the service controller
\* was started, and ctx is not done.
C10_Witness ==
    /\ ~ctxDone
    /\ pc = "iter"
    /\ \E n \in DOMAIN handles :
          /\ ~handles[n].returned
          /\ handles[n].started = {"service"}
          /\ handles[n].cancelCalls = 1

\* The steps by which a blocking wait ends because its timer has expired:
\* the time.Sleep of Run (line 106), the time.Sleep of getKubeClient
\* (line 147) and the timeout of the readiness poll (line 184).
WaitTimerExpires == Sleep \/ Backoff \/ PollTimeout

\* C11: a blocking wait in which ctx is done ends because of the signal: it
\* is never the expiry of the wait's timer that ends it.
C11_WaitsObserveSignal ==
    [][(ctxDone /\ pc \in {"sleep", "backoff", "poll"}) => ~WaitTimerExpires]_vars

\* C12: a probe counts as successful exactly when the exchange completed,
\* whatever the status code, and as failed exactly when the transport failed.
C12_ProbeIsReachability ==
    /\ pc = "newclient" => resp.err = "nil"
    /\ pc = "backoff" => resp.err \in TransportErrors

\* C12 witness: a 503 answer counted as reachable.
C12_Witness ==
    /\ pc = "newclient"
    /\ resp.err = "nil"
    /\ resp.status = 503

\* The cluster being launched has no background task running.
NothingStartedFor(cluster) ==
    \A n \in DOMAIN handles :
        handles[n].cluster = cluster => RunningTasks(handles[n]) = {}

\* A step in which startCloudControllerManager returns the error of its
\* readiness poll (lines 193-196) and Run goes on to the next cluster.
PollGaveUp == pc = "poll" /\ pc' = "iter"

\* C13: startCloudControllerManager goes past its readiness poll only after
\* the poll has read status 200 on /healthz, and until then nothing is
\* running for the cluster; when the poll ends with a timeout or with ctx
\* done, no handle is created, nothing is started and the cluster is not a
\* key of c.clusters when Run moves on, so the next cycle tries it again.
C13_HealthGate ==
    /\ [](pc \in {"svc", "node"} => resp = [err |-> "nil", status |-> StatusOK])
    /\ [](pc = "poll" => NothingStartedFor(clusters[idx]))
    /\ [][PollGaveUp =>
            /\ handles' = handles
            /\ c_clusters' = c_clusters
            /\ clusters[idx] \notin DOMAIN c_clusters'
            /\ idx' = idx + 1]_vars

C13_Witness ==
    /\ pc = "svc"
    /\ resp = [err |-> "nil", status |-> StatusOK]
    /\ \E n \in DOMAIN handles :
        handles[n].cluster = clusters[idx] /\ handles[n].cancelCalls > 0
    /\ NothingStartedFor(clusters[idx])

\* C14: once ctx is done while getKubeClient is probing or backing off, the
\* call issues no further probe, stays on the variant it was probing, and
\* what it returns is ctx.Err() and no client.
C14_CancelAbortsBootstrap ==
    [][(ctxDone /\ pc \in {"probe", "backoff"}) =>
            /\ probes' = probes
            /\ v' = v
            /\ pc' \in {"probe", "gkc_ret"}
            /\ pc' = "gkc_ret" => (gkcErr' = "canceled" /\ kubeClient' = "nil")]_vars

\* The identifiers of the listing of the current cycle (line 60).
ListedThisCycle == {clusters[n] : n \in DOMAIN clusters}

\* C15: from the listing to the end of a cycle the slice `clusters` is not
\* reassigned, every key the cycle inserts into c.clusters is an element of
\* it and every key the cycle removes is not, so no identifier is both
\* inserted and removed in one cycle.
C15_OneListingPerCycle ==
    [][/\ pc # "loop" => clusters' = clusters
       /\ \A k \in DOMAIN c_clusters' \ DOMAIN c_clusters : k \in ListedThisCycle
       /\ \A k \in DOMAIN c_clusters \ DOMAIN c_clusters' :
            /\ k \notin ListedThisCycle
            /\ pc = "remove"]_vars

C15_Witness ==
    /\ pc = "sleep"
    /\ ListedThisCycle = {2}
    /\ DOMAIN c_clusters = {2}
    /\ c_clusters[2] = Len(handles)
    /\ \E n \in DOMAIN handles :
        /\ handles[n].cluster = 1
        /\ handles[n].returned
        /\ handles[n].cancelCalls = 1

\* C16: a key leaves c.clusters only in the removal phase, in a step that
\* has called the cancel function of the handle stored under it; the cancel
\* function of a handle stored in c.clusters is called in no other step, so
\* as long as ctx is not done every stored handle has a live lifetime.
C16_CancelThenDelete ==
    /\ [](\A n \in Held : handles[n].cancelCalls = 0)
    /\ [](\A n \in Held : LifetimeCanceled(handles[n]) => ctxDone)
    /\ [][/\ \A k \in DOMAIN c_clusters \ DOMAIN c_clusters' :
                /\ pc = "remove"
                /\ handles'[c_clusters[k]].cancelCalls =
                       handles[c_clusters[k]].cancelCalls + 1
          /\ \A n \in Held :
                handles'[n].cancelCalls # handles[n].cancelCalls =>
                    pc = "remove" /\ n \notin Held']_vars

C16_Witness ==
    /\ pc = "sleep"
    /\ ~ctxDone
    /\ \E n \in DOMAIN handles :
        /\ n \notin Held
        /\ handles[n].returned
        /\ handles[n].cancelCalls = 1
    /\ \E n \in Held : RunningTasks(handles[n]) # {}

\* The attempt of the current cycle for cluster c has failed: the add loop
\* is past c and c is not a key of c.clusters.
Failed(c) ==
    /\ pc \in {"iter", "poll", "svc", "node", "remove", "sleep"}
    /\ \E j \in 1..(idx - 1) :
        j \in DOMAIN clusters /\ clusters[j] = c /\ c \notin DOMAIN c_clusters

\* C17: with ctx never done, if every successful listing holds cluster c,
\* listings keep succeeding and from some cycle on the attempt for c does not
\* fail, then c eventually is a key of c.clusters: failed attempts, for c or
\* for clusters listed before it, leave the add loop running and c is tried
\* again in the cycles that follow.
C17_RetriedUntilLaunched ==
    \A c \in ClusterIds :
        ( /\ []~ctxDone
          /\ [](pc = "loop" \/ err \/ c \in ListedThisCycle)
          /\ []<>(pc = "iter" /\ ~err)
          /\ <>[]~Failed(c) )
        => <>(c \in DOMAIN c_clusters)

C17_Witness ==
    /\ ~ctxDone
    /\ pc = "sleep"
    /\ \E k \in DOMAIN c_clusters : \E n \in DOMAIN handles :
        /\ handles[n].cluster = k
        /\ ~handles[n].returned
        /\ n < c_clusters[k]

\* The containers cleanup has called container.Delete for.
Attempted == {deletes[n].id : n \in DOMAIN deletes}

\* C18: when ListByLabel fails cleanup calls Delete for nothing; otherwise
\* it calls Delete for the listed containers one after the other, whether or
\* not an earlier Delete failed, and returns having called it once for every
\* listed container.
C18_DeletesEveryListed ==
    /\ cleanupErr => deletes = <<>>
    /\ \A n \in DOMAIN deletes :
          n \in DOMAIN containers /\ deletes[n].id = containers[n]
    /\ (pc = "done" /\ ~cleanupErr) => Len(deletes) = Len(containers)

C18_Witness ==
    /\ pc = "done"
    /\ Len(containers) = NumContainers
    /\ deletes[1].failed
    /\ Attempted = 1..NumContainers

\* A step in which Run returns or has returned (lines 54-58, 67-71, 52).
Shutdown == pc' \in {"cleanup", "done"}

\* C19: the service controller, the node controller and the informers of an
\* instance all stop when its cancel function has been called, and all stop
\* when ctx is done; when Run returns it calls no cancel function and leaves
\* the keys of c.clusters in place, so the instances still stored then are
\* stopped by ctx alone.
C19_CancellationCascades ==
    /\ [](\A n \in DOMAIN handles :
            handles[n].cancelCalls > 0 => RunningTasks(handles[n]) = {})
    /\ [](ctxDone => \A n \in DOMAIN handles : RunningTasks(handles[n]) = {})
    /\ [](\A n \in DOMAIN handles :
            (handles[n].returned /\ ~ctxDone /\ handles[n].cancelCalls = 0) =>
                RunningTasks(handles[n]) = {"service", "node", "informers"})
    /\ [][Shutdown => (handles' = handles /\ c_clusters' = c_clusters)]_vars

C19_Witness ==
    /\ pc = "done"
    /\ \E n \in Held :
        /\ handles[n].started = {"service", "node", "informers"}
        /\ handles[n].cancelCalls = 0
        /\ RunningTasks(handles[n]) = {}
    /\ \E n \in DOMAIN handles :
        /\ handles[n].returned
        /\ handles[n].cancelCalls = 1

============================================================================
